---- MODULE Spec2Model ----
(***************************************************************************)
(* A model of main.go: the converter of DynamoDB-style typed JSON          *)
(* ({"S": "x"}, {"N": "42"}, ...) into plain JSON.                         *)
(*                                                                         *)
(* Strings are sequences of one-character strings, so that TrimSpace,      *)
(* Contains, time.Parse and ParseFloat are computed on the characters.     *)
(* A Go interface{} value is a record tagged with its dynamic type:        *)
(*   string, float64, int64, bool, nil, map, slice.                        *)
(* A Go panic (a failed single-value type assertion) is the value Panic;   *)
(* it is never caught in main.go, so it unwinds every caller.              *)
(* A call whose result depends on Go's unspecified map iteration order is  *)
(* the set of results over all orders.                                     *)
(***************************************************************************)
EXTENDS Integers, Sequences, FiniteSets, TLC

(***************************************************************************)
(* Go values.                                                              *)
(***************************************************************************)
Str(s) == [t |-> "string", s |-> s]
F64(v) == [t |-> "float64", cls |-> "finite", v |-> v]
F64Special(cls) == [t |-> "float64", cls |-> cls, v |-> 0]
I64(v) == [t |-> "int64", v |-> v]
Bool(b) == [t |-> "bool", b |-> b]
Nil == [t |-> "nil"]
Map(m) == [t |-> "map", m |-> m]
Slice(l) == [t |-> "slice", l |-> l]
Panic == [t |-> "panic"]

EmptyMap == <<>>

(***************************************************************************)
(* strings.TrimSpace, strings.Contains.  Of Unicode's white space the      *)
(* model's strings hold the space, tab, newline, carriage return and form  *)
(* feed.                                                                   *)
(***************************************************************************)
IsSpace(c) == c \in {" ", "\t", "\n", "\r", "\f"}

RECURSIVE TrimLeft(_)
TrimLeft(s) ==
  IF s # <<>> /\ IsSpace(Head(s)) THEN TrimLeft(Tail(s)) ELSE s

RECURSIVE TrimRight(_)
TrimRight(s) ==
  IF s # <<>> /\ IsSpace(s[Len(s)])
  THEN TrimRight(SubSeq(s, 1, Len(s) - 1))
  ELSE s

TrimSpace(s) == TrimRight(TrimLeft(s))

\* a variant of Contains that looks for substr at the end of s only
ContainsAtEnd(s, substr) ==
  /\ Len(s) >= Len(substr)
  /\ SubSeq(s, Len(s) - Len(substr) + 1, Len(s)) = substr

Contains(s, substr) ==
  \E i \in 1..(Len(s) - Len(substr) + 1) :
    SubSeq(s, i, i + Len(substr) - 1) = substr

\* a variant of sanitizeKey that trims the leading whitespace only
sanitizeKeyLeading(key) == TrimLeft(key)

\* sanitizeKey trims leading and trailing whitespace from a key.
sanitizeKey(key) == TrimSpace(key)

(***************************************************************************)
(* time.Parse(time.RFC3339, s) and Time.Unix, for the layouts              *)
(*   YYYY-MM-DDThh:mm:ssZ   and   YYYY-MM-DDThh:mm:ss(+|-)hh:mm            *)
(* with the year in 1970..2037 (the epoch stays below 2^31).                *)
(* Fractional seconds are outside the model's input strings.               *)
(***************************************************************************)
Digits == {"0", "1", "2", "3", "4", "5", "6", "7", "8", "9"}

DigitVal(c) ==
  CASE c = "0" -> 0 [] c = "1" -> 1 [] c = "2" -> 2 [] c = "3" -> 3
    [] c = "4" -> 4 [] c = "5" -> 5 [] c = "6" -> 6 [] c = "7" -> 7
    [] c = "8" -> 8 [] c = "9" -> 9

AllDigits(s, from, to) == \A i \in from..to : s[i] \in Digits

Num2(s, i) == DigitVal(s[i]) * 10 + DigitVal(s[i + 1])

Num4(s, i) == Num2(s, i) * 100 + Num2(s, i + 2)

IsLeap(y) == (y % 4 = 0) /\ ((y % 100 # 0) \/ (y % 400 = 0))

DaysIn(m, y) ==
  IF m = 2 THEN (IF IsLeap(y) THEN 29 ELSE 28)
  ELSE IF m \in {4, 6, 9, 11} THEN 30 ELSE 31

DateTimeShape(s) ==
  /\ Len(s) >= 19
  /\ AllDigits(s, 1, 4) /\ s[5] = "-"
  /\ AllDigits(s, 6, 7) /\ s[8] = "-"
  /\ AllDigits(s, 9, 10) /\ s[11] = "T"
  /\ AllDigits(s, 12, 13) /\ s[14] = ":"
  /\ AllDigits(s, 15, 16) /\ s[17] = ":"
  /\ AllDigits(s, 18, 19)

DateTimeInRange(s) ==
  /\ Num2(s, 6) \in 1..12
  /\ Num2(s, 9) \in 1..DaysIn(Num2(s, 6), Num4(s, 1))
  /\ Num2(s, 12) \in 0..23
  /\ Num2(s, 15) \in 0..59
  /\ Num2(s, 18) \in 0..59

ZoneShape(s) ==
  \/ Len(s) = 20 /\ s[20] = "Z"
  \/ /\ Len(s) = 25
     /\ s[20] \in {"+", "-"}
     /\ AllDigits(s, 21, 22) /\ s[23] = ":" /\ AllDigits(s, 24, 25)
     /\ Num2(s, 21) \in 0..23 /\ Num2(s, 24) \in 0..59

\* err == nil of time.Parse(time.RFC3339, s)
IsRFC3339(s) ==
  DateTimeShape(s) /\ ZoneShape(s) /\ DateTimeInRange(s)

ZoneOffset(s) ==
  IF Len(s) = 20 THEN 0
  ELSE (IF s[20] = "-" THEN -1 ELSE 1)
       * (Num2(s, 21) * 3600 + Num2(s, 24) * 60)

\* Days from 1970-01-01 to the civil date y-m-d.
DaysFromCivil(y, m, d) ==
  LET yy == IF m <= 2 THEN y - 1 ELSE y
      era == yy \div 400
      yoe == yy - era * 400
      mp == IF m > 2 THEN m - 3 ELSE m + 9
      doy == (153 * mp + 2) \div 5 + d - 1
      doe == yoe * 365 + yoe \div 4 - yoe \div 100 + doy
  IN era * 146097 + doe - 719468

\* t.Unix() of the parsed time
UnixOf(s) ==
  DaysFromCivil(Num4(s, 1), Num2(s, 6), Num2(s, 9)) * 86400
  + Num2(s, 12) * 3600 + Num2(s, 15) * 60 + Num2(s, 18) - ZoneOffset(s)

(***************************************************************************)
(* strconv.ParseFloat(s, 64), for decimal integers with an optional sign   *)
(* and for the spellings of infinity and NaN.  Fractions, exponents and    *)
(* hexadecimal floats are outside the model's input strings.               *)
(***************************************************************************)
Lower(c) ==
  CASE c = "I" -> "i" [] c = "N" -> "n" [] c = "F" -> "f" [] c = "A" -> "a"
    [] c = "T" -> "t" [] c = "Y" -> "y" [] OTHER -> c

LowerStr(s) == [i \in 1..Len(s) |-> Lower(s[i])]

HasSign(s) == s # <<>> /\ Head(s) \in {"+", "-"}

Unsigned(s) == IF HasSign(s) THEN Tail(s) ELSE s

IsInfSpelling(s) ==
  LowerStr(s) \in {<<"i", "n", "f">>,
                   <<"i", "n", "f", "i", "n", "i", "t", "y">>}

IsNaNSpelling(s) == LowerStr(s) = <<"n", "a", "n">>

IsDecimalInt(s) == s # <<>> /\ AllDigits(s, 1, Len(s))

RECURSIVE DecimalVal(_)
DecimalVal(s) ==
  IF s = <<>> THEN 0
  ELSE DecimalVal(SubSeq(s, 1, Len(s) - 1)) * 10 + DigitVal(s[Len(s)])

\* err == nil of strconv.ParseFloat(s, 64)
ParseFloatOk(s) ==
  \/ IsDecimalInt(Unsigned(s))
  \/ IsInfSpelling(Unsigned(s))
  \/ IsNaNSpelling(s)

ParseFloat(s) ==
  IF IsNaNSpelling(s) THEN F64Special("NaN")
  ELSE IF IsInfSpelling(Unsigned(s))
       THEN F64Special(IF HasSign(s) /\ Head(s) = "-" THEN "-Inf" ELSE "+Inf")
       ELSE F64((IF HasSign(s) /\ Head(s) = "-" THEN -1 ELSE 1)
                * DecimalVal(Unsigned(s)))

(***************************************************************************)
(* The tags of TransformRules, as strings of characters.                   *)
(***************************************************************************)
TagS == <<"S">>
TagN == <<"N">>
TagBOOL == <<"B", "O", "O", "L">>
TagNULL == <<"N", "U", "L", "L">>
TagM == <<"M">>
TagL == <<"L">>

\* the keys of the TransformRules map
RuleKeys == {TagS, TagN, TagBOOL, TagNULL, TagM, TagL}

(***************************************************************************)
(* Map helpers: m[k] = v, and the merge loop of TransformJSON.             *)
(***************************************************************************)
Put(m, k, v) == [x \in (DOMAIN m) \cup {k} |-> IF x = k THEN v ELSE m[x]]

\* a variant of the merge that replaces output by a non-empty outMap
MergeIntoReplacing(output, outMap) ==
  IF Cardinality(DOMAIN outMap) > 0 THEN outMap ELSE output

MergeInto(output, outMap) ==
  IF Cardinality(DOMAIN outMap) > 0
  THEN [x \in (DOMAIN output) \cup (DOMAIN outMap) |->
          IF x \in DOMAIN outMap THEN outMap[x] ELSE output[x]]
  ELSE output

(***************************************************************************)
(* The rules.  Each is the set of values the call can return; {Panic}      *)
(* when the type assertion on the payload fails.                           *)
(***************************************************************************)
FormatString(v) ==
  IF v.t # "string" THEN {Panic}
  ELSE IF IsRFC3339(v.s) THEN {I64(UnixOf(v.s))}
  ELSE {Str(v.s)}

\* a variant of FormatNum that substitutes 0.0 for a payload of another type
FormatNumDefaulting(v) ==
  IF v.t # "string" THEN {F64(0)}
  ELSE IF ParseFloatOk(v.s) THEN {ParseFloat(v.s)}
  ELSE {F64(0)}

FormatNum(v) ==
  IF v.t # "string" THEN {Panic}
  ELSE IF ParseFloatOk(v.s) THEN {ParseFloat(v.s)}
  ELSE {F64(0)}

FormatBool(v) ==
  IF v.t # "string" THEN {Panic}
  ELSE IF v.s \in {<<"1">>, <<"t">>, <<"t", "r", "u", "e">>}
       THEN {Bool(TRUE)}
       ELSE {Bool(FALSE)}

\* a variant of FormatNull that asserts a string payload
FormatNullAsserting(v) == IF v.t # "string" THEN {Panic} ELSE {Nil}

FormatNull(v) == {Nil}

RECURSIVE TransformJSON(_)
RECURSIVE FormatMap(_)
RECURSIVE FormatList(_)
RECURSIVE ListRange(_, _, _)
RECURSIVE ApplyRule(_, _)
RECURSIVE InnerRange(_, _, _, _)
RECURSIVE EntryOutMap(_, _)
RECURSIVE OuterRange(_, _, _)
RECURSIVE ListRangeSkippingEmpty(_, _, _)
RECURSIVE ListRangePrepending(_, _, _)
RECURSIVE InnerRangeAnyKey(_, _, _, _)
RECURSIVE InnerRangeByTag(_, _, _, _)

FormatMap(v) ==
  IF v.t # "map" THEN {Panic}
  ELSE TransformJSON(v.m)

\* a variant of the loop that appends only the non-empty results
ListRangeSkippingEmpty(listValue, i, outList) ==
  IF i > Len(listValue) THEN {Slice(outList)}
  ELSE IF listValue[i].t = "map"
       THEN UNION {IF r = Panic THEN {Panic}
                   ELSE ListRangeSkippingEmpty(listValue, i + 1,
                          IF r.m = EmptyMap THEN outList
                          ELSE Append(outList, r)) :
                   r \in TransformJSON(listValue[i].m)}
       ELSE ListRangeSkippingEmpty(listValue, i + 1, outList)

\* a variant of the loop that puts each result in front of outList
ListRangePrepending(listValue, i, outList) ==
  IF i > Len(listValue) THEN {Slice(outList)}
  ELSE IF listValue[i].t = "map"
       THEN UNION {IF r = Panic THEN {Panic}
                   ELSE ListRangePrepending(listValue, i + 1,
                                            <<r>> \o outList) :
                   r \in TransformJSON(listValue[i].m)}
       ELSE ListRangePrepending(listValue, i + 1, outList)

\* the loop of FormatList from element i on, outList built so far
ListRange(listValue, i, outList) ==
  IF i > Len(listValue) THEN {Slice(outList)}
  ELSE IF listValue[i].t = "map"
       THEN UNION {IF r = Panic THEN {Panic}
                   ELSE ListRange(listValue, i + 1, Append(outList, r)) :
                   r \in TransformJSON(listValue[i].m)}
       ELSE ListRange(listValue, i + 1, outList)

FormatList(v) ==
  IF v.t # "slice" THEN {Panic}
  ELSE ListRange(v.l, 1, <<>>)

\* TransformRules[k](v)
ApplyRule(k, v) ==
  CASE k = TagS -> FormatString(v)
    [] k = TagN -> FormatNum(v)
    [] k = TagBOOL -> FormatBool(v)
    [] k = TagNULL -> FormatNull(v)
    [] k = TagM -> FormatMap(v)
    [] k = TagL -> FormatList(v)

\* a variant of the loop that records the value of a key without a rule as is
InnerRangeAnyKey(key, val, todo, outMap) ==
  IF todo = {} THEN {Map(outMap)}
  ELSE UNION {
         LET k == sanitizeKey(rawK)
         IN IF k \in RuleKeys
            THEN UNION {IF r = Panic THEN {Panic}
                        ELSE InnerRangeAnyKey(key, val, todo \ {rawK},
                                              Put(outMap, key, r)) :
                        r \in ApplyRule(k, val[rawK])}
            ELSE InnerRangeAnyKey(key, val, todo \ {rawK},
                                  Put(outMap, key, val[rawK])) :
         rawK \in todo}

\* a variant of the loop that records each result under its tag
InnerRangeByTag(key, val, todo, outMap) ==
  IF todo = {} THEN {Map(outMap)}
  ELSE UNION {
         LET k == sanitizeKey(rawK)
         IN IF k \in RuleKeys
            THEN UNION {IF r = Panic THEN {Panic}
                        ELSE InnerRangeByTag(key, val, todo \ {rawK},
                                             Put(outMap, k, r)) :
                        r \in ApplyRule(k, val[rawK])}
            ELSE InnerRangeByTag(key, val, todo \ {rawK}, outMap) :
         rawK \in todo}

\* the loop over the nested map val, with the keys in todo still to come
InnerRange(key, val, todo, outMap) ==
  IF todo = {} THEN {Map(outMap)}
  ELSE UNION {
         LET k == sanitizeKey(rawK)
         IN IF k \in RuleKeys
            THEN UNION {IF r = Panic THEN {Panic}
                        ELSE InnerRange(key, val, todo \ {rawK},
                                        Put(outMap, key, r)) :
                        r \in ApplyRule(k, val[rawK])}
            ELSE InnerRange(key, val, todo \ {rawK}, outMap) :
         rawK \in todo}

\* a variant that records a value that is not a map as it is
EntryOutMapKeepingPlain(key, value) ==
  IF value.t = "map"
  THEN InnerRange(key, value.m, DOMAIN value.m, EmptyMap)
  ELSE {Map(Put(EmptyMap, key, value))}

\* outMap of one entry of inputMap, whose sanitized key is key
EntryOutMap(key, value) ==
  IF value.t = "map"
  THEN InnerRange(key, value.m, DOMAIN value.m, EmptyMap)
  ELSE {Map(EmptyMap)}

\* the loop over inputMap, with the keys in todo still to come
OuterRange(inputMap, todo, output) ==
  IF todo = {} THEN {Map(output)}
  ELSE UNION {
         LET key == sanitizeKey(rawKey)
         IN IF key = <<>>
            THEN OuterRange(inputMap, todo \ {rawKey}, output)
            ELSE UNION {IF om = Panic THEN {Panic}
                        ELSE OuterRange(inputMap, todo \ {rawKey},
                                        MergeInto(output, om.m)) :
                        om \in EntryOutMap(key, inputMap[rawKey])} :
         rawKey \in todo}

\* TransformJSON(inputMap): the maps it can return, and Panic
TransformJSON(inputMap) ==
  OuterRange(inputMap, DOMAIN inputMap, EmptyMap)

(***************************************************************************)
(* The documents the engine is called with.                                *)
(***************************************************************************)
MaxOuterKeys == 2
MaxTagKeys == 2
MaxNestedKeys == 2
MaxListLen == 2

\* the maps with at most n keys among K and values in V
Objs(K, V, n) ==
  UNION {[D -> V] : D \in {D \in SUBSET K : Cardinality(D) <= n}}

\* the lists of at most n elements of E
Lists(E, n) == UNION {[1..i -> E] : i \in 0..n}

One(k, v) == [x \in {k} |-> v]

Tagged(tag, payload) == Map(One(tag, payload))

kA == <<"a">>
kAPadded == <<" ", "a", " ">>
kATab == <<"\t", "a">>
kB == <<"b">>
kBlank == <<" ">>
kEmpty == <<>>
kX == <<"X">>
kSPadded == <<" ", "S">>

sVal == <<" ", "v", "a", "l">>
s1 == <<"1">>
s3 == <<"3">>
sY == <<"y">>
sInf == <<"I", "n", "f">>
sIgnored == <<"i", "g", "n", "o", "r", "e", "d", "-", "n", "o", "t", "-",
              "o", "b", "j", "e", "c", "t">>
sTime == <<"2", "0", "0", "6", "-", "0", "1", "-", "0", "2", "T",
           "1", "5", ":", "0", "4", ":", "0", "5", "Z">>
sTimeZone == <<"2", "0", "0", "6", "-", "0", "1", "-", "0", "2", "T",
               "1", "5", ":", "0", "4", ":", "0", "5", "-", "0", "7", ":",
               "0", "0">>
sNoTime == <<"2", "0", "0", "6", "-", "0", "2", "-", "3", "0", "T",
             "1", "5", ":", "0", "4", ":", "0", "5", "Z">>

FieldKeys == {kA, kAPadded, TagS, kEmpty, kBlank}
NestedKeys == {kA, kATab, TagS}
TagKeys == RuleKeys \cup {kSPadded, kX}

LeafVals == {Str(sVal), Str(s1), Str(sTime), F64(7), Nil}

\* the values of the entries of a nested document
NestedVals ==
  { Tagged(TagS, Str(sVal)), Tagged(TagN, Str(s1)), Tagged(TagN, F64(7)),
    Tagged(kX, Str(sY)), Tagged(TagM, Tagged(TagS, Tagged(TagS, Str(sVal)))),
    Map([x \in {TagS, TagN} |-> Str(s1)]), Str(sVal) }

NestedDocs == Objs(NestedKeys, NestedVals, MaxNestedKeys)

ElemDocs ==
  Objs({kA, TagS}, {Tagged(TagS, Str(sVal)), Tagged(TagN, F64(7))}, 1)

ListElems ==
  {Map(d) : d \in ElemDocs} \cup {Str(sVal), Nil, Slice(<<>>)}

ListVals == {Slice(l) : l \in Lists(ListElems, MaxListLen)}

\* the payloads tried under one tag key
PayloadsFor(tag) ==
  IF sanitizeKey(tag) = TagM
  THEN LeafVals \cup {Map(d) : d \in NestedDocs} \cup {Slice(<<>>)}
  ELSE IF sanitizeKey(tag) = TagL
       THEN LeafVals \cup ListVals \cup {Map(EmptyMap)}
       ELSE LeafVals \cup {Str(sInf), Str(sTimeZone), Str(sNoTime),
                          Map(EmptyMap), Slice(<<>>)}

OneTagObjs == UNION {{Tagged(tag, p) : p \in PayloadsFor(tag)} : tag \in TagKeys}

ManyTagPayloads ==
  {Str(sVal), Str(s1), F64(7), Tagged(kA, Tagged(TagS, Str(sVal)))}

ManyTagObjs == {Map(m) : m \in Objs(TagKeys, ManyTagPayloads, MaxTagKeys)}

\* one entry, whose value is any of the tagged objects
OneEntryDocs ==
  {One(k, v) : k \in FieldKeys, v \in OneTagObjs \cup ManyTagObjs}

SeveralEntryVals ==
  { Tagged(TagS, Str(sVal)), Tagged(TagN, Str(s1)), Tagged(TagBOOL, Str(s1)),
    Tagged(TagNULL, Str(s1)), Tagged(TagN, F64(7)), Tagged(kX, Str(sY)),
    Tagged(kSPadded, Str(s1)), Tagged(TagM, Tagged(kA, Tagged(TagS, Str(s1)))),
    Tagged(TagL, Slice(<<Tagged(kA, Tagged(TagN, Str(s1))), Nil>>)),
    Str(sVal) }

SeveralEntryDocs == Objs(FieldKeys, SeveralEntryVals, MaxOuterKeys)

\* {"a": {"L": [{"M": {"b": {"N": "3"}}}, {"S": "ignored-not-object"}]}}
ListExampleDoc ==
  One(kA, Tagged(TagL, Slice(<<
    Tagged(TagM, Tagged(kB, Tagged(TagN, Str(s3)))),
    Tagged(TagS, Str(sIgnored)) >>)))

Docs == OneEntryDocs \cup SeveralEntryDocs \cup {ListExampleDoc}

(***************************************************************************)
(* encoding/json, as far as main.go depends on it.                         *)
(* A file's bytes are Garbage (not JSON) or the JSON value they spell,     *)
(* written as the Go value Unmarshal would build for it.  Marshal fails    *)
(* on a float64 that is not finite, and writes int64 and float64 alike as  *)
(* a JSON number.                                                          *)
(***************************************************************************)
Garbage == [t |-> "garbage"]
Missing == [t |-> "missing"]

\* err == nil of json.Unmarshal(fileBytes, &output), output a map
UnmarshalOk(bytes) == bytes.t \in {"map", "nil"}

\* output after json.Unmarshal(fileBytes, &output): JSON null leaves it nil
UnmarshalMap(bytes) == IF bytes.t = "map" THEN bytes.m ELSE EmptyMap

RECURSIVE Marshalable(_)
\* err == nil of json.Marshal(v)
Marshalable(v) ==
  CASE v.t = "float64" -> v.cls = "finite"
    [] v.t = "map" -> \A k \in DOMAIN v.m : Marshalable(v.m[k])
    [] v.t = "slice" -> \A i \in 1..Len(v.l) : Marshalable(v.l[i])
    [] OTHER -> TRUE

RECURSIVE Marshal(_)
\* the JSON text json.Marshal(v) writes, as the JSON value it spells
Marshal(v) ==
  CASE v.t \in {"float64", "int64"} -> [j |-> "number", v |-> v.v]
    [] v.t = "string" -> [j |-> "string", s |-> v.s]
    [] v.t = "bool" -> [j |-> "bool", b |-> v.b]
    [] v.t = "nil" -> [j |-> "null"]
    [] v.t = "map" -> [j |-> "object", m |-> [k \in DOMAIN v.m |-> Marshal(v.m[k])]]
    [] v.t = "slice" ->
         [j |-> "array", l |-> [i \in 1..Len(v.l) |-> Marshal(v.l[i])]]

(***************************************************************************)
(* The state.                                                              *)
(*   pc        where the client, or main, stands                           *)
(*   input     the map handed to TransformJSON                             *)
(*   output    what TransformJSON returned, or Panic                       *)
(*   again     what TransformJSON returned for output, or Panic            *)
(*   listArg, listRet   the payload handed to FormatList, and its result   *)
(*   args      the value of --config on the command line, or NoFlag        *)
(*   fileName  the name ParseSchema is called with                         *)
(*   disk      the file of that name: Missing, Garbage or its JSON value   *)
(*   reads     the number of calls of os.ReadFile                          *)
(*   calls     the number of calls main made of TransformJSON              *)
(*   err       the error in hand, or NoError                               *)
(*   stdout    the lines printed                                           *)
(***************************************************************************)
VARIABLES pc, input, output, again, listArg, listRet,
          args, fileName, disk, reads, calls, err, stdout

mainVars == <<args, fileName, disk, reads, calls, err, stdout>>
vars == <<pc, input, output, again, listArg, listRet,
          args, fileName, disk, reads, calls, err, stdout>>

NoFlag == <<"-">>
NoError == [from |-> "none", msg |-> ""]
Error(from, msg) == [from |-> from, msg |-> msg]

\* fmt.Println("error :", err)
ErrorLine(e) == [line |-> "error", text |-> <<"error :", " ", e.msg>>]

\* fmt.Println(string(out))
JSONLine(out) == [line |-> "json", text |-> out]

(***************************************************************************)
(* The engine, called by a client: TransformJSON on a document, then       *)
(* TransformJSON on what it returned; FormatList on the payload of an L    *)
(* tag of the document.                                                    *)
(***************************************************************************)
Init ==
  /\ pc = "ready"
  /\ input \in {Map(d) : d \in Docs}
  /\ output = Nil
  /\ again = Nil
  /\ listArg = Nil
  /\ listRet = Nil
  /\ args = NoFlag
  /\ fileName = <<>>
  /\ disk = Missing
  /\ reads = 0
  /\ calls = 0
  /\ err = NoError
  /\ stdout = <<>>

\* output := TransformJSON(input)
CallTransformJSON ==
  /\ pc = "ready"
  /\ \E r \in TransformJSON(input.m) :
       /\ output' = r
       /\ pc' = IF r = Panic THEN "panicked" ELSE "returned"
  /\ UNCHANGED <<input, again, listArg, listRet>>
  /\ UNCHANGED mainVars

\* again := TransformJSON(output)
CallTransformJSONAgain ==
  /\ pc = "returned"
  /\ \E r \in TransformJSON(output.m) :
       /\ again' = r
       /\ pc' = IF r = Panic THEN "panickedAgain" ELSE "returnedAgain"
  /\ UNCHANGED <<input, output, listArg, listRet>>
  /\ UNCHANGED mainVars

\* listRet := FormatList(p), p the payload of an L tag of the document
CallFormatList ==
  /\ pc = "ready"
  /\ \E rawKey \in DOMAIN input.m :
       /\ input.m[rawKey].t = "map"
       /\ \E rawK \in DOMAIN input.m[rawKey].m :
            /\ sanitizeKey(rawK) = TagL
            /\ listArg' = input.m[rawKey].m[rawK]
            /\ \E r \in FormatList(input.m[rawKey].m[rawK]) :
                 /\ listRet' = r
                 /\ pc' = IF r = Panic THEN "listPanicked" ELSE "listReturned"
  /\ UNCHANGED <<input, output, again>>
  /\ UNCHANGED mainVars

Next == CallTransformJSON \/ CallTransformJSONAgain \/ CallFormatList

Spec == Init /\ [][Next]_vars

(***************************************************************************)
(* The program: main, ParseSchema, TransformJSON, Marshal, Println.        *)
(***************************************************************************)
fSchemaJson == <<"s", "c", "h", "e", "m", "a", ".", "j", "s", "o", "n">>
fSchemaTxt == <<"s", "c", "h", "e", "m", "a", ".", "t", "x", "t">>
fMyJsonfile == <<"m", "y", ".", "j", "s", "o", "n", "f", "i", "l", "e">>
fFooJsonx == <<"f", "o", "o", ".", "j", "s", "o", "n", "x">>
fDotJsonDir == <<".", "j", "s", "o", "n", "/", "x">>
fJson == <<"j", "s", "o", "n">>
fDotJso == <<"a", ".", "j", "s", "o">>

FileNames ==
  {fSchemaJson, fSchemaTxt, fMyJsonfile, fFooJsonx, fDotJsonDir, fJson,
   fDotJso, <<>>}

\* what the file may hold
FileDocs ==
  { EmptyMap,
    One(kAPadded, Tagged(TagS, Str(sVal))),
    One(kA, Tagged(TagS, Str(sTime))),
    One(kA, Tagged(TagN, Str(sInf))),
    One(kA, Tagged(TagN, F64(7))),
    One(kA, Tagged(kX, Str(sY))),
    One(kA, Tagged(TagM, Tagged(kB, Tagged(TagBOOL, Str(s1))))),
    One(kA, Map([x \in {TagS, TagN} |-> Str(s1)])),
    [x \in {kA, kAPadded} |-> IF x = kA THEN Tagged(TagS, Str(sVal))
                              ELSE Tagged(TagNULL, Str(s1))],
    ListExampleDoc }

DiskStates ==
  {Missing, Garbage, Nil, Slice(<<>>), Str(sVal)} \cup {Map(d) : d \in FileDocs}

MainInit ==
  /\ pc = "main"
  /\ args \in {NoFlag} \cup FileNames
  /\ disk \in DiskStates
  /\ fileName = <<>>
  /\ input = Nil
  /\ output = Nil
  /\ again = Nil
  /\ listArg = Nil
  /\ listRet = Nil
  /\ reads = 0
  /\ calls = 0
  /\ err = NoError
  /\ stdout = <<>>

\* flag.String("config", "schema.json", ...); flag.Parse(); ParseSchema(...)
mainParseFlags ==
  /\ pc = "main"
  /\ fileName' = IF args = NoFlag THEN fSchemaJson ELSE args
  /\ pc' = "ParseSchema"
  /\ UNCHANGED <<input, output, again, listArg, listRet>>
  /\ UNCHANGED <<args, disk, reads, calls, err, stdout>>

\* if !strings.Contains(fileName, ".json") { return nil, errors.New(...) }
ParseSchemaCheckName ==
  /\ pc = "ParseSchema"
  /\ IF Contains(fileName, <<".", "j", "s", "o", "n">>)
     THEN pc' = "ReadFile" /\ err' = err
     ELSE /\ pc' = "mainError"
          /\ err' = Error("ParseSchema", "config file is not a JSON file")
  /\ UNCHANGED <<input, output, again, listArg, listRet>>
  /\ UNCHANGED <<args, fileName, disk, reads, calls, stdout>>

\* fileBytes, err := os.ReadFile(fileName)
ParseSchemaReadFile ==
  /\ pc = "ReadFile"
  /\ reads' = reads + 1
  /\ IF disk = Missing
     THEN /\ pc' = "mainError"
          /\ err' = Error("ParseSchema", "open: no such file or directory")
     ELSE pc' = "Unmarshal" /\ err' = err
  /\ UNCHANGED <<input, output, again, listArg, listRet>>
  /\ UNCHANGED <<args, fileName, disk, calls, stdout>>

\* json.Unmarshal(fileBytes, &output); return output, nil
ParseSchemaUnmarshal ==
  /\ pc = "Unmarshal"
  /\ IF UnmarshalOk(disk)
     THEN /\ input' = Map(UnmarshalMap(disk))
          /\ pc' = "TransformJSON"
          /\ err' = err
     ELSE /\ input' = input
          /\ pc' = "mainError"
          /\ err' = Error("ParseSchema", "json: cannot unmarshal")
  /\ UNCHANGED <<output, again, listArg, listRet>>
  /\ UNCHANGED <<args, fileName, disk, reads, calls, stdout>>

\* output := TransformJSON(inputMap); a panic ends the program
mainTransformJSON ==
  /\ pc = "TransformJSON"
  /\ calls' = calls + 1
  /\ \E r \in TransformJSON(input.m) :
       /\ output' = r
       /\ pc' = IF r = Panic THEN "crashed" ELSE "Marshal"
  /\ UNCHANGED <<input, again, listArg, listRet>>
  /\ UNCHANGED <<args, fileName, disk, reads, err, stdout>>

\* out, err := json.Marshal(output); fmt.Println(string(out))
mainMarshal ==
  /\ pc = "Marshal"
  /\ IF Marshalable(output)
     THEN /\ stdout' = Append(stdout, JSONLine(Marshal(output)))
          /\ pc' = "exit"
          /\ err' = err
     ELSE /\ stdout' = stdout
          /\ pc' = "mainError"
          /\ err' = Error("Marshal", "json: unsupported value")
  /\ UNCHANGED <<input, output, again, listArg, listRet>>
  /\ UNCHANGED <<args, fileName, disk, reads, calls>>

\* fmt.Println("error :", err); return
mainPrintError ==
  /\ pc = "mainError"
  /\ stdout' = Append(stdout, ErrorLine(err))
  /\ pc' = "exit"
  /\ UNCHANGED <<input, output, again, listArg, listRet>>
  /\ UNCHANGED <<args, fileName, disk, reads, calls, err>>

MainNext ==
  \/ mainParseFlags
  \/ ParseSchemaCheckName
  \/ ParseSchemaReadFile
  \/ ParseSchemaUnmarshal
  \/ mainTransformJSON
  \/ mainMarshal
  \/ mainPrintError

MainSpec == MainInit /\ [][MainNext]_vars

(***************************************************************************)
(* What the specification says, stated on its own terms: these             *)
(* definitions use none of the operators that model the code's loops.      *)
(***************************************************************************)
WhiteSpace == {" ", "\t", "\n", "\r", "\f"}

Least(S) == CHOOSE x \in S : \A y \in S : x <= y
Greatest(S) == CHOOSE x \in S : \A y \in S : y <= x

\* s without its leading and trailing whitespace
Trimmed(s) ==
  LET solid == {i \in 1..Len(s) : s[i] \notin WhiteSpace}
  IN IF solid = {} THEN <<>> ELSE SubSeq(s, Least(solid), Greatest(solid))

Tags ==
  {<<"S">>, <<"N">>, <<"B", "O", "O", "L">>, <<"N", "U", "L", "L">>,
   <<"M">>, <<"L">>}

\* the payload has the shape the tag's rule expects
WellShaped(tag, payload) ==
  CASE tag \in {<<"S">>, <<"N">>, <<"B", "O", "O", "L">>} -> payload.t = "string"
    [] tag = <<"M">> -> payload.t = "map"
    [] tag = <<"L">> -> payload.t = "slice"
    [] OTHER -> TRUE

\* the keys of the inner object inner whose sanitized form is a tag
TagKeysOf(inner) == {tk \in DOMAIN inner : Trimmed(tk) \in Tags}

\* the entries of the document m that the dispatcher processes
Processed(m) == {rk \in DOMAIN m : Trimmed(rk) # <<>> /\ m[rk].t = "map"}

\* a rule is applied, at the top level of m, to a payload of the wrong shape
MismatchHere(m) ==
  \E rk \in Processed(m) : \E tk \in TagKeysOf(m[rk].m) :
    ~WellShaped(Trimmed(tk), m[rk].m[tk])

RECURSIVE MismatchWithin(_)
\* a rule is applied, at some depth of m, to a payload of the wrong shape
MismatchWithin(m) ==
  \E rk \in Processed(m) : \E tk \in TagKeysOf(m[rk].m) :
    LET tag == Trimmed(tk)
        payload == m[rk].m[tk]
    IN \/ ~WellShaped(tag, payload)
       \/ tag = <<"M">> /\ payload.t = "map" /\ MismatchWithin(payload.m)
       \/ /\ tag = <<"L">> /\ payload.t = "slice"
          /\ \E i \in 1..Len(payload.l) :
               payload.l[i].t = "map" /\ MismatchWithin(payload.l[i].m)

\* the outer keys of m whose sanitized form is k
Colliding(m, k) == {rk \in DOMAIN m : Trimmed(rk) = k}

\* what the rules of the recognized tags of inner can return
RuleResults(inner) ==
  UNION {ApplyRule(Trimmed(tk), inner[tk]) : tk \in TagKeysOf(inner)}

Called == pc \in {"returned", "panicked"}

(***************************************************************************)
(* C1: whenever TransformJSON applies, at any depth, a rule to a payload   *)
(* whose shape does not match the tag, the whole top-level call aborts:    *)
(* there is no output object, neither a partial one nor one with a         *)
(* default in the place of the field.                                      *)
(***************************************************************************)
C1_MismatchAborts ==
  (Called /\ MismatchWithin(input.m)) => (pc = "panicked" /\ output = Panic)

\* the mismatch lies below the top level, and the call has aborted
C1_Witness ==
  /\ pc = "panicked"
  /\ MismatchWithin(input.m)
  /\ ~MismatchHere(input.m)

(***************************************************************************)
(* C2, as stated: TransformJSON returns a plain object for every input     *)
(* object, and never fails.                                                *)
(***************************************************************************)
C2_NeverFails == Called => (pc = "returned" /\ output.t = "map")

(***************************************************************************)
(* C2, amended: TransformJSON returns a plain object for every input in    *)
(* which no rule is applied to a payload of the wrong shape; the shapes    *)
(* it does not recognize (an empty sanitized key, a value that is not an   *)
(* object, a key that is not a tag, a list element that is not an object)  *)
(* lead to omission and never to an abort.                                 *)
(***************************************************************************)
C2_FailsOnlyOnMismatch ==
  (Called /\ ~MismatchWithin(input.m)) => (pc = "returned" /\ output.t = "map")

\* an entry that is not an object, beside one that is, and the call returned
C2_Witness ==
  /\ pc = "returned"
  /\ \E rk \in DOMAIN input.m : input.m[rk].t # "map"
  /\ \E rk \in DOMAIN input.m :
       input.m[rk].t = "map" /\ TagKeysOf(input.m[rk].m) = {}
  /\ output = Map(EmptyMap)

(***************************************************************************)
(* C3: when TransformJSON returns, the keys of the object it returns are   *)
(* exactly the sanitized outer keys that are not empty and whose value is  *)
(* an object with at least one key that sanitizes to a tag; the other      *)
(* entries give no output entry, and {"a": {"X": "y"}} gives {}.           *)
(***************************************************************************)
ExpectedKeys(m) ==
  {Trimmed(rk) : rk \in {x \in Processed(m) : TagKeysOf(m[x].m) # {}}}

C3_KeySet ==
  /\ pc = "returned" => DOMAIN output.m = ExpectedKeys(input.m)
  /\ (Called /\ input = Map(One(kA, Tagged(kX, Str(sY)))))
       => output = Map(EmptyMap)

\* one entry kept and one dropped
C3_Witness ==
  /\ pc = "returned"
  /\ Cardinality(DOMAIN input.m) = 2
  /\ Cardinality(ExpectedKeys(input.m)) = 1
  /\ Cardinality(DOMAIN output.m) = 1
  /\ \E rk \in DOMAIN input.m : Trimmed(rk) = <<>>

(***************************************************************************)
(* C4, as stated: TransformJSON of                                         *)
(*   {"a": {"L": [{"M": {"b": {"N": "3"}}}, {"S": "ignored-not-object"}]}} *)
(* returns {"a": [{"b": 3.0}]}.                                            *)
(***************************************************************************)
C4_ListExampleAsStated ==
  (Called /\ input = Map(ListExampleDoc))
    => output = Map(One(kA, Slice(<<Map(One(kB, F64(3)))>>)))

(***************************************************************************)
(* C4, amended: TransformJSON of that document returns {"a": [{}, {}]}:    *)
(* both list elements are objects, each is transformed as a document of    *)
(* its own, whose keys "M" and "S" are field names with no tag beneath     *)
(* them, so each gives the empty object and none is dropped.               *)
(***************************************************************************)
C4_ListExample ==
  (Called /\ input = Map(ListExampleDoc))
    => output = Map(One(kA, Slice(<<Map(EmptyMap), Map(EmptyMap)>>)))

C4_Witness == pc = "returned" /\ input = Map(ListExampleDoc)

(***************************************************************************)
(* C5, as stated: for every input x on which TransformJSON returns,        *)
(* TransformJSON(TransformJSON(x)) returns {}.                             *)
(***************************************************************************)
CalledAgain == pc \in {"returnedAgain", "panickedAgain"}

C5_RoundTripAsStated == CalledAgain => again = Map(EmptyMap)

(***************************************************************************)
(* C5, amended: for every input x on which TransformJSON returns,          *)
(* TransformJSON(TransformJSON(x)) returns {} exactly when no value at the *)
(* top level of TransformJSON(x) is an object with a key that is a tag     *)
(* (such an object comes from an M payload with a field named S, N, BOOL,  *)
(* NULL, M or L).  With such a value the second call applies the tag's     *)
(* rule to the field's plain value: it returns an entry for it, or aborts. *)
(***************************************************************************)
HasTagNamedField(m) ==
  \E k \in DOMAIN m : m[k].t = "map" /\ TagKeysOf(m[k].m) # {}

C5_RoundTrip ==
  CalledAgain => (again = Map(EmptyMap) <=> ~HasTagNamedField(output.m))

\* a plain object that is not empty, transformed to {}
C5_Witness ==
  /\ pc = "returnedAgain"
  /\ \E k \in DOMAIN output.m : output.m[k].t = "map" /\ output.m[k].m # EmptyMap
  /\ again = Map(EmptyMap)

(***************************************************************************)
(* C6: when the inner object of an entry has more than one key that        *)
(* sanitizes to a tag, each with a payload of the shape its rule expects,  *)
(* TransformJSON records exactly one entry for the outer key, whose value  *)
(* is what one of those rules returns for its own payload; which one is    *)
(* not determined, and each of them can be.                                *)
(***************************************************************************)
SeveralTags(m) ==
  {rk \in Processed(m) :
     /\ Cardinality(TagKeysOf(m[rk].m)) > 1
     /\ \A tk \in TagKeysOf(m[rk].m) : WellShaped(Trimmed(tk), m[rk].m[tk])}

C6_OneOfTheRules ==
  \A rk \in SeveralTags(input.m) :
    LET key == Trimmed(rk)
        results == RuleResults(input.m[rk].m)
        recorded == EntryOutMap(key, input.m[rk])
    IN /\ \A om \in recorded :
            \/ om = Panic /\ Panic \in results
            \/ /\ om.t = "map"
               /\ DOMAIN om.m = {key}
               /\ om.m[key] \in results \ {Panic}
       /\ Panic \notin results =>
            \A r \in results : Map(One(key, r)) \in recorded
       /\ (pc = "returned" /\ Colliding(input.m, key) = {rk})
            => (key \in DOMAIN output.m /\ output.m[key] \in results)

\* two tags whose rules return different values, and the call returned
C6_Witness ==
  /\ pc = "returned"
  /\ \E rk \in SeveralTags(input.m) :
       /\ Cardinality(RuleResults(input.m[rk].m)) > 1
       /\ Cardinality(EntryOutMap(Trimmed(rk), input.m[rk])) > 1

(***************************************************************************)
(* C7: in every object TransformJSON returns, at every depth, every key    *)
(* is non-empty and has no leading or trailing whitespace; the string      *)
(* payload of an S tag is never trimmed: {" a ": {"S": " val"}} gives      *)
(* {"a": " val"}.                                                          *)
(***************************************************************************)
CleanKey(k) ==
  k # <<>> /\ k[1] \notin WhiteSpace /\ k[Len(k)] \notin WhiteSpace

RECURSIVE CleanKeys(_)
CleanKeys(v) ==
  CASE v.t = "map" -> \A k \in DOMAIN v.m : CleanKey(k) /\ CleanKeys(v.m[k])
    [] v.t = "slice" -> \A i \in 1..Len(v.l) : CleanKeys(v.l[i])
    [] OTHER -> TRUE

\* the entries whose inner object is {"S": s} alone, s not a timestamp
PlainStrings(m) ==
  {rk \in Processed(m) :
     /\ Colliding(m, Trimmed(rk)) = {rk}
     /\ Cardinality(DOMAIN m[rk].m) = 1
     /\ \A tk \in DOMAIN m[rk].m :
          /\ Trimmed(tk) = <<"S">>
          /\ m[rk].m[tk].t = "string"
          /\ ~IsRFC3339(m[rk].m[tk].s)}

C7_KeysTrimmedPayloadsNot ==
  pc = "returned" =>
    /\ CleanKeys(output)
    /\ \A rk \in PlainStrings(input.m) : \A tk \in DOMAIN input.m[rk].m :
         output.m[Trimmed(rk)] = input.m[rk].m[tk]
    /\ input = Map(One(kAPadded, Tagged(TagS, Str(sVal))))
         => output = Map(One(kA, Str(sVal)))

\* a padded key at the top and one inside an M payload, and " val" kept
C7_Witness ==
  /\ pc = "returned"
  /\ input = Map(One(kAPadded,
                     Tagged(TagM, Tagged(kATab, Tagged(TagS, Str(sVal))))))
  /\ output = Map(One(kA, Map(One(kA, Str(sVal)))))

(***************************************************************************)
(* C8: for an array payload p, FormatList returns a new array with one     *)
(* element for each element of p that is an object, in the order of p,     *)
(* the i-th being TransformJSON of the i-th object of p; the other         *)
(* elements of p add nothing and raise no error; an array without          *)
(* objects gives the empty array, not null and not an omitted key.         *)
(***************************************************************************)
IsObject(v) == v.t = "map"

ListCalled == pc \in {"listReturned", "listPanicked"}

C8_FormatList ==
  /\ (ListCalled /\ listArg.t = "slice") =>
       LET objects == SelectSeq(listArg.l, IsObject)
       IN IF \A i \in 1..Len(objects) : ~MismatchWithin(objects[i].m)
          THEN /\ pc = "listReturned"
               /\ listRet.t = "slice"
               /\ Len(listRet.l) = Len(objects)
               /\ \A i \in 1..Len(objects) :
                    listRet.l[i] \in TransformJSON(objects[i].m)
          ELSE listRet = Panic
  /\ (pc = "returned" /\ input = Map(One(kA, Tagged(TagL, Slice(<<>>)))))
       => output = Map(One(kA, Slice(<<>>)))

\* an object that gives a non-empty result, after an element that is none
C8_Witness ==
  /\ pc = "listReturned"
  /\ Len(listArg.l) = 2
  /\ listArg.l[1].t # "map"
  /\ Len(listRet.l) = 1
  /\ listRet.l[1] # Map(EmptyMap)

(***************************************************************************)
(* C9: ParseSchema rejects a file name without the substring ".json"       *)
(* before any attempt to read the file; a name with ".json" anywhere       *)
(* ("my.jsonfile", "foo.jsonx") passes the check and goes on to the read;  *)
(* when ParseSchema returns an error, main prints the one line             *)
(* "error : <message>" and returns: TransformJSON is not called and no     *)
(* JSON is printed.                                                        *)
(***************************************************************************)
HasDotJson(name) ==
  \E i \in 1..(Len(name) - 4) :
    /\ name[i] = "." /\ name[i + 1] = "j" /\ name[i + 2] = "s"
    /\ name[i + 3] = "o" /\ name[i + 4] = "n"

NameChecked == pc \notin {"main", "ParseSchema"}

NameError == Error("ParseSchema", "config file is not a JSON file")

C9_NameCheckThenRead ==
  /\ reads > 0 => HasDotJson(fileName)
  /\ (NameChecked /\ ~HasDotJson(fileName)) =>
       (reads = 0 /\ err = NameError /\ pc \in {"mainError", "exit"})
  /\ (NameChecked /\ HasDotJson(fileName)) =>
       (err # NameError /\ (pc = "ReadFile" \/ reads = 1))
  /\ err.from = "ParseSchema" =>
       /\ calls = 0
       /\ output = Nil
       /\ \/ pc = "mainError" /\ stdout = <<>>
          \/ /\ pc = "exit"
             /\ stdout = <<[line |-> "error",
                            text |-> <<"error :", " ", err.msg>>]>>

\* "my.jsonfile" passed the check, the read failed, the error is printed
C9_Witness ==
  /\ pc = "exit"
  /\ fileName = fMyJsonfile
  /\ reads = 1
  /\ calls = 0
  /\ err.from = "ParseSchema"
  /\ Len(stdout) = 1 /\ stdout[1].line = "error"

(***************************************************************************)
(* C10: when two or more keys of the input object sanitize to the same     *)
(* non-empty key, each with an object that has a tag with a payload of     *)
(* the right shape, the object TransformJSON returns has exactly one       *)
(* entry for that key, whose value is a rule result of one of those        *)
(* entries; which one is not determined, and the others are lost without   *)
(* an error.  When no object that is traversed has two keys with the same  *)
(* sanitized form and no inner object has more than one tag, the output    *)
(* is determined by the input.                                             *)
(***************************************************************************)
CollidingKeys(m) ==
  {k \in {Trimmed(rk) : rk \in DOMAIN m} :
     /\ k # <<>>
     /\ Cardinality(Colliding(m, k)) > 1
     /\ \A rk \in Colliding(m, k) :
          /\ m[rk].t = "map"
          /\ TagKeysOf(m[rk].m) # {}
          /\ \A tk \in TagKeysOf(m[rk].m) :
               WellShaped(Trimmed(tk), m[rk].m[tk])}

NoTwoAlike(keys) ==
  \A k1 \in keys : \A k2 \in keys : Trimmed(k1) = Trimmed(k2) => k1 = k2

RECURSIVE Unambiguous(_)
Unambiguous(m) ==
  /\ NoTwoAlike(DOMAIN m)
  /\ \A rk \in DOMAIN m : m[rk].t = "map" =>
       /\ NoTwoAlike(DOMAIN m[rk].m)
       /\ Cardinality(TagKeysOf(m[rk].m)) <= 1
       /\ \A tk \in DOMAIN m[rk].m :
            LET payload == m[rk].m[tk]
            IN /\ payload.t = "map" => Unambiguous(payload.m)
               /\ payload.t = "slice" =>
                    \A i \in 1..Len(payload.l) :
                      payload.l[i].t = "map" => Unambiguous(payload.l[i].m)

C10_Collisions ==
  /\ pc = "returned" =>
       \A k \in CollidingKeys(input.m) :
         /\ k \in DOMAIN output.m
         /\ \A ok \in DOMAIN output.m : Trimmed(ok) = k => ok = k
         /\ output.m[k] \in
              UNION {RuleResults(input.m[rk].m) : rk \in Colliding(input.m, k)}
  /\ (pc = "ready" /\ Panic \notin TransformJSON(input.m)) =>
       \A k \in CollidingKeys(input.m) : \A rk \in Colliding(input.m, k) :
         \E o \in TransformJSON(input.m) : o.m[k] \in RuleResults(input.m[rk].m)
  /\ (pc = "ready" /\ Unambiguous(input.m)) =>
       Cardinality(TransformJSON(input.m)) = 1

\* "a" and " a " with different results, and the call returned one of them
C10_Witness ==
  /\ pc = "returned"
  /\ CollidingKeys(input.m) # {}
  /\ Cardinality(DOMAIN input.m) = 2
  /\ Cardinality(TransformJSON(input.m)) = 2
====
